---- MODULE Spec2Model ----
(***************************************************************************)
(* Forced-subscription administration of Movie-Bot-2: the channel and bot  *)
(* registration dialogs, the management menu (detail view, status toggle,  *)
(* two-step delete) and the membership gate.                               *)
(*                                                                         *)
(* A text is a sequence of one-character strings; an optional value is the *)
(* empty tuple (None / key absent) or a one-element tuple holding it.      *)
(***************************************************************************)
EXTENDS Integers, Sequences, FiniteSets, TLC

VARIABLES
    channels,        \* rows of the channels table
    bots,            \* rows of the bots table
    default_status,  \* status literal the tables give a new row
    getter_faults,   \* whether a datastore call of a getter may raise a storage error
    stack,           \* per admin conversation: the dialog stack of contexts
    view,            \* per admin conversation: what the last rendering showed
    toggling,        \* per admin conversation: a toggle suspended between read and write
    last,            \* the last event handled: who, which handler, what its add call returned
    gate             \* the last membership check: list read, queries issued, result

vars == <<channels, bots, default_status, getter_faults, stack, view, toggling, last, gate>>

----------------------------------------------------------------------------
(* Bounds of the model *)

MaxDepth == 3          \* contexts a dialog stack may hold
MaxGateChannels == 3   \* channel rows in a membership check

Admins == {"admin1", "admin2"}
SoloAdmins == {"admin1"}

None == <<>>
Some(x) == <<x>>

(* message texts an admin may send: only whitespace, and " @a" *)
Texts == { <<" ">>, <<" ", "@", "a">> }
ConcTexts == { <<" ", "@", "a">> }

(* chats a post may be forwarded from: id, full_name, username ("" when unset) *)
Chats == { [id |-> 555, full_name |-> "", username |-> "films"] }

(* an incoming message: the chat it is forwarded from and its text, each optional *)
Messages(chats, texts) ==
    [forward_from_chat : {None} \cup {Some(c) : c \in chats},
     text : {None} \cup {Some(t) : t \in texts}]

(* the messages of the two-admin runs: a forwarded post that also carries text *)
ConcMessages ==
    { [forward_from_chat |-> Some(c), text |-> Some(t)] : c \in Chats, t \in ConcTexts }

StatusLiterals == {"True", "False"}

----------------------------------------------------------------------------
(* Text functions *)

RECURSIVE LStripChar(_, _)
LStripChar(t, ch) ==
    IF t # <<>> /\ Head(t) = ch THEN LStripChar(Tail(t), ch) ELSE t

RECURSIVE RStripChar(_, _)
RStripChar(t, ch) ==
    IF t # <<>> /\ t[Len(t)] = ch THEN RStripChar(SubSeq(t, 1, Len(t) - 1), ch) ELSE t

(* str.strip() *)
Strip(t) == RStripChar(LStripChar(t, " "), " ")

(* message.text.strip().lstrip("@") *)
CleanUsername(t) == LStripChar(Strip(t), "@")

(* the default URL built with the "@" of the handle put back *)
DefaultBotUrlWithAt(bot_username) == <<"https://t.me/", "@">> \o bot_username

(* f"https://t.me/{bot_username}" *)
DefaultBotUrl(bot_username) == <<"https://t.me/">> \o bot_username

(* Python truth of an optional text: None and "" are false *)
TruthyText(opt) == opt # None /\ opt[1] # <<>>

----------------------------------------------------------------------------
(* Entity store: the channels and bots tables.  A table is a sequence of   *)
(* rows in insertion order; the key is id for a channel and bot_username   *)
(* for a bot.                                                              *)

ChannelRow(channel_id, channel_name, channel_username, status, channel_url) ==
    [id |-> channel_id, name |-> channel_name, username |-> channel_username,
     status |-> status, url |-> channel_url]

BotRow(bot_name, bot_username, status, bot_url) ==
    [name |-> bot_name, username |-> bot_username, status |-> status, url |-> bot_url]

ChannelKeys(rows) == { rows[i].id : i \in DOMAIN rows }
BotKeys(rows) == { rows[i].username : i \in DOMAIN rows }

(* get_channel: the row with this id, or None *)
get_channel(rows, channel_id) ==
    LET m == SelectSeq(rows, LAMBDA r : r.id = channel_id)
    IN  IF m = <<>> THEN None ELSE Some(m[1])

(* add_channel with a duplicate check that always lets the insert through *)
add_channel_no_unique(rows, row) ==
    [result |-> "ok", rows |-> Append(rows, row)]

(* add_channel: insert, or UniqueViolationError when the id is present *)
add_channel(rows, row) ==
    IF row.id \in ChannelKeys(rows)
    THEN [result |-> "unique_violation", rows |-> rows]
    ELSE [result |-> "ok", rows |-> Append(rows, row)]

(* update_channel_status: set the status of the row with this id, if any *)
update_channel_status(rows, new_status, channel_id) ==
    [i \in DOMAIN rows |->
        IF rows[i].id = channel_id THEN [rows[i] EXCEPT !.status = new_status] ELSE rows[i]]

(* delete_channel: remove the row with this id, if any *)
delete_channel(rows, channel_id) ==
    SelectSeq(rows, LAMBDA r : r.id # channel_id)

get_bot(rows, bot_username) ==
    LET m == SelectSeq(rows, LAMBDA r : r.username = bot_username)
    IN  IF m = <<>> THEN None ELSE Some(m[1])

add_bot(rows, row) ==
    IF row.username \in BotKeys(rows)
    THEN [result |-> "unique_violation", rows |-> rows]
    ELSE [result |-> "ok", rows |-> Append(rows, row)]

update_bot_status(rows, new_status, bot_username) ==
    [i \in DOMAIN rows |->
        IF rows[i].username = bot_username THEN [rows[i] EXCEPT !.status = new_status]
        ELSE rows[i]]

delete_bot(rows, bot_username) ==
    SelectSeq(rows, LAMBDA r : r.username # bot_username)

(* get_all_channels: every row, in an order the table does not promise *)
get_all_channels(rows) ==
    { [i \in DOMAIN rows |-> rows[p[i]]] :
        p \in { q \in [DOMAIN rows -> DOMAIN rows] : \A i, j \in DOMAIN rows : q[i] = q[j] => i = j } }

(* outcome of one datastore call: it returns, or raises a storage error *)
DbOutcomes == {"ok", "error"}

----------------------------------------------------------------------------
(* Dialog states (StatesGroup classes) *)

OPMenu_menu == "OPMenu:menu"
AddChannelState_get_channel_data == "AddChannelState:get_channel_data"
AddChannelState_get_channel_link == "AddChannelState:get_channel_link"
AddBotState_get_bot_name == "AddBotState:get_bot_name"
AddBotState_get_bot_username == "AddBotState:get_bot_username"
AddBotState_get_bot_link == "AddBotState:get_bot_link"
BotMenu_menu == "BotMenu:menu"
BotMenu_delete_bot == "BotMenu:delete_bot"
ChannelMenu_menu == "ChannelMenu:menu"
ChannelMenu_delete_channel == "ChannelMenu:delete_channel"

(* windows that carry the button Start("Back", state=OPMenu.menu) *)
BackToOpMenuWindows ==
    { AddChannelState_get_channel_data, AddChannelState_get_channel_link,
      ChannelMenu_menu,
      AddBotState_get_bot_username, AddBotState_get_bot_link, AddBotState_get_bot_name,
      BotMenu_menu }

(* the keys of the Case(..., selector="msg_type") of each registration window *)
CaseVariants(state) ==
    CASE state = AddChannelState_get_channel_data -> {"start_msg", "not_forwarded"}
      [] state = AddChannelState_get_channel_link -> {"start_msg", "error", "already_exists"}
      [] state = AddBotState_get_bot_username ->
            {"start_msg", "error_format", "already_exists"}
      [] state = AddBotState_get_bot_link -> {"start_msg", "error_format"}
      [] state = AddBotState_get_bot_name -> {"start_msg", "error_format"}
      [] OTHER -> {}

(* the Dialog each state's Window belongs to *)
DialogOf(state) ==
    CASE state = OPMenu_menu -> "op_management_dialog"
      [] state \in {AddChannelState_get_channel_data, AddChannelState_get_channel_link} ->
            "add_channel_dialog"
      [] state \in {ChannelMenu_menu, ChannelMenu_delete_channel} ->
            "channel_management_dialog"
      [] state \in {AddBotState_get_bot_username, AddBotState_get_bot_link,
                    AddBotState_get_bot_name} -> "add_bot_dialog"
      [] state \in {BotMenu_menu, BotMenu_delete_bot} -> "bot_management_dialog"
      [] OTHER -> "none"

(* dialog_register: the dialogs its router includes *)
dialog_register ==
    {"op_management_dialog", "bot_management_dialog", "channel_management_dialog"}

----------------------------------------------------------------------------
(* Dialog manager: a stack of contexts, each with its state, start_data    *)
(* and dialog_data.  msg_type "unset" stands for the key being absent.      *)

EmptyData ==
    [msg_type |-> "unset", channel_data |-> None, channel_id |-> None,
     bot_username |-> None, bot_url |-> None]

NoStartData == [given |-> FALSE, channel_id |-> None, bot_username |-> None]
ChannelStartData(channel_id) ==
    [given |-> TRUE, channel_id |-> Some(channel_id), bot_username |-> None]
BotStartData(bot_username) ==
    [given |-> TRUE, channel_id |-> None, bot_username |-> Some(bot_username)]

Top(stk) == stk[Len(stk)]

(* dialog_manager.start(state, data): a new context on top of the stack *)
start(stk, state, data) ==
    Append(stk, [state |-> state, start_data |-> data, dialog_data |-> EmptyData])

(* dialog_manager.done(): the current context leaves the stack *)
done(stk) == SubSeq(stk, 1, Len(stk) - 1)

(* dialog_manager.switch_to(state): the current context changes window *)
switch_to(stk, state) == [stk EXCEPT ![Len(stk)].state = state]

(* dialog_manager.dialog_data["msg_type"] = value *)
set_msg_type(stk, value) == [stk EXCEPT ![Len(stk)].dialog_data.msg_type = value]

----------------------------------------------------------------------------
(* Getters: what a window shows, computed when the window is rendered *)

BlankView(state) ==
    [state |-> state, msg_type |-> "", channel_items |-> {}, bot_items |-> {},
     info |-> "", op_button |-> ""]

(* get_op_menu_data: both lists, and the empty-state discriminator *)
get_op_menu_data(chs, bts) ==
    [state |-> OPMenu_menu,
     msg_type |-> IF chs = <<>> /\ bts = <<>> THEN "not_found" ELSE "start_msg",
     channel_items |-> ChannelKeys(chs), bot_items |-> BotKeys(bts),
     info |-> "", op_button |-> ""]

(* get_add_channel_data / get_add_bot_data: dialog_data.get("msg_type", "start_msg") *)
get_add_data(ctx) ==
    [BlankView(ctx.state) EXCEPT
        !.msg_type = IF ctx.dialog_data.msg_type = "unset" THEN "start_msg"
                     ELSE ctx.dialog_data.msg_type]

(* get_channel_info_data offering the toggle for a row that is not there *)
get_channel_info_data_no_placeholder(ctx, chs) ==
    LET channel_data == IF ctx.start_data.channel_id = None THEN None
                        ELSE get_channel(chs, ctx.start_data.channel_id[1])
    IN  [BlankView(ctx.state) EXCEPT
            !.info = IF channel_data = None THEN "not_found" ELSE "found",
            !.op_button = IF channel_data # None /\ channel_data[1].status = "True"
                          THEN "remove" ELSE "add"]

(* get_channel_info_data: the placeholder, or the row with its toggle label *)
get_channel_info_data(ctx, chs) ==
    LET channel_data == IF ctx.start_data.channel_id = None THEN None
                        ELSE get_channel(chs, ctx.start_data.channel_id[1])
    IN  IF channel_data = None
        THEN [BlankView(ctx.state) EXCEPT !.info = "not_found", !.op_button = "dash"]
        ELSE [BlankView(ctx.state) EXCEPT
                !.info = "found",
                !.op_button = IF channel_data[1].status = "True" THEN "remove" ELSE "add"]

(* get_bot_info_data *)
get_bot_info_data(ctx, bts) ==
    LET bot_data == IF ctx.start_data.bot_username = None THEN None
                    ELSE get_bot(bts, ctx.start_data.bot_username[1])
    IN  IF bot_data = None
        THEN [BlankView(ctx.state) EXCEPT !.info = "not_found", !.op_button = "dash"]
        ELSE [BlankView(ctx.state) EXCEPT
                !.info = "found",
                !.op_button = IF bot_data[1].status = "True" THEN "remove" ELSE "add"]

(* a getter calls start_data.get(...) on a start_data that is None *)
GetterRaises(ctx) ==
    ctx.state \in {ChannelMenu_menu, BotMenu_menu} /\ ~ctx.start_data.given

(* the getter of the window of ctx *)
Getter(ctx, chs, bts) ==
    CASE ctx.state = OPMenu_menu -> get_op_menu_data(chs, bts)
      [] ctx.state \in {AddChannelState_get_channel_data, AddChannelState_get_channel_link,
                        AddBotState_get_bot_username, AddBotState_get_bot_link,
                        AddBotState_get_bot_name} -> get_add_data(ctx)
      [] ctx.state = ChannelMenu_menu -> get_channel_info_data(ctx, chs)
      [] ctx.state = BotMenu_menu -> get_bot_info_data(ctx, bts)
      [] OTHER -> BlankView(ctx.state)

(* what the getters write: dialog_data[key] = start_data.get(key) *)
GetterWrites(ctx) ==
    CASE ctx.state = ChannelMenu_menu ->
            [ctx EXCEPT !.dialog_data.channel_id = ctx.start_data.channel_id]
      [] ctx.state = BotMenu_menu ->
            [ctx EXCEPT !.dialog_data.bot_username = ctx.start_data.bot_username]
      [] OTHER -> ctx

(* the admin menu outside the dialogs, shown when the stack is empty *)
AdminMenuView == BlankView("admin_menu")

(* The last event handled: who, which handler, the message it was given,    *)
(* what its add call returned ("none" when it made none), what its other   *)
(* datastore call returned, whether an exception left the handler; for a   *)
(* toggle the status it read (before) and wrote (after) and whether the    *)
(* stored status had changed since the read (stale); for a delete whether  *)
(* the row was there (before).                                             *)
NoMessage == [forward_from_chat |-> None, text |-> None]

NoEvent == [who |-> "", handler |-> "", message |-> NoMessage,
            add |-> "none", db |-> "none", render |-> "none", escaped |-> FALSE,
            before |-> "", after |-> "", stale |-> FALSE]

Event(a, handler, add, db) ==
    [NoEvent EXCEPT !.who = a, !.handler = handler, !.add = add, !.db = db]

MessageEvent(a, handler, message, add, db) ==
    [Event(a, handler, add, db) EXCEPT !.message = message]

(* the getters that call the datastore: get_op_menu_data, get_channel_info_data, *)
(* get_bot_info_data                                                            *)
GetterCallsStore(ctx) == ctx.state \in {OPMenu_menu, ChannelMenu_menu, BotMenu_menu}

(* what the datastore call of the getter of the top window may return *)
RenderOutcomes(stk) ==
    IF stk = <<>> \/ GetterRaises(Top(stk)) \/ ~GetterCallsStore(Top(stk)) THEN {"none"}
    ELSE IF getter_faults THEN DbOutcomes
    ELSE {"ok"}

(* End of an event of admin a that leaves the stack stk: the window of the *)
(* top context is rendered.  When its getter raises, on start_data that is *)
(* None or on a storage error of its datastore call, the exception leaves  *)
(* the handler; the stack kept for the conversation is then either the old *)
(* one or the new one, with nothing rendered.  No getter has a try block.  *)
Finish(a, stk, ev) ==
    \E render \in RenderOutcomes(stk) :
        IF stk # <<>> /\ GetterRaises(Top(stk))
        THEN /\ stack' \in { stack, [stack EXCEPT ![a] = stk] }
             /\ view' = view
             /\ last' = [ev EXCEPT !.escaped = TRUE, !.render = render]
        ELSE IF render = "error"
        THEN /\ stack' \in { stack,
                              [stack EXCEPT ![a] =
                                  [stk EXCEPT ![Len(stk)] = GetterWrites(Top(stk))]] }
             /\ view' = view
             /\ last' = [ev EXCEPT !.escaped = TRUE, !.render = render]
        ELSE /\ stack' = [stack EXCEPT ![a] =
                            IF stk = <<>> THEN stk
                            ELSE [stk EXCEPT ![Len(stk)] = GetterWrites(Top(stk))]]
             /\ view' = [view EXCEPT ![a] =
                            IF stk = <<>> THEN AdminMenuView
                            ELSE Getter(Top(stk), channels', bots')]
             /\ last' = [ev EXCEPT !.render = render]

(* admin a is looking at the window of `state`, with no handler suspended *)
Active(a, state) ==
    /\ toggling[a] = None
    /\ stack[a] # <<>>
    /\ Top(stack[a]).state = state
    /\ view[a].state = state

----------------------------------------------------------------------------
(* Channel registration: AddChannelState.get_channel_data -> get_channel_link *)

(* channel_data with the name and the handle of the chat in each other's place *)
extract_channel_data_swapped(chat) ==
    [channel_name |-> chat.username,
     channel_id |-> chat.id,
     channel_username |-> IF chat.full_name = "" THEN "Unnamed Channel" ELSE chat.full_name]

(* channel_data built from message.forward_from_chat *)
extract_channel_data(chat) ==
    [channel_name |-> IF chat.full_name = "" THEN "Unnamed Channel" ELSE chat.full_name,
     channel_id |-> chat.id,
     channel_username |-> chat.username]

(* handle_channel_forward without the existence check *)
channel_forward_unchecked(stk, chs, message, db) ==
    IF message.forward_from_chat = None
    THEN set_msg_type(stk, "not_forwarded")
    ELSE IF db = "error"
    THEN set_msg_type(stk, "error")
    ELSE switch_to(
           [stk EXCEPT ![Len(stk)].dialog_data.channel_data =
                           Some(extract_channel_data(message.forward_from_chat[1]))],
           AddChannelState_get_channel_link)

(* handle_channel_forward stashing channel_data before the existence check *)
channel_forward_stash_first(stk, chs, message, db) ==
    IF message.forward_from_chat = None
    THEN set_msg_type(stk, "not_forwarded")
    ELSE LET chat == message.forward_from_chat[1]
             stashed == [stk EXCEPT ![Len(stk)].dialog_data.channel_data =
                                        Some(extract_channel_data(chat))]
         IN  IF db = "error"
             THEN set_msg_type(stk, "error")
             ELSE IF get_channel(chs, chat.id) # None
             THEN switch_to(set_msg_type(stashed, "already_exists"),
                            AddChannelState_get_channel_link)
             ELSE switch_to(stashed, AddChannelState_get_channel_link)

(* handle_channel_forward: the stack it leaves; db is the outcome of get_channel *)
channel_forward(stk, chs, message, db) ==
    IF message.forward_from_chat = None
    THEN set_msg_type(stk, "not_forwarded")
    ELSE LET chat == message.forward_from_chat[1]
         IN  IF db = "error"
             THEN set_msg_type(stk, "error")
             ELSE IF get_channel(chs, chat.id) # None
             THEN switch_to(set_msg_type(stk, "already_exists"),
                            AddChannelState_get_channel_link)
             ELSE switch_to(
                    [stk EXCEPT ![Len(stk)].dialog_data.channel_data =
                                    Some(extract_channel_data(chat))],
                    AddChannelState_get_channel_link)

handle_channel_forward(a, message, db) ==
    /\ Active(a, AddChannelState_get_channel_data)
    /\ UNCHANGED <<channels, bots, default_status, getter_faults, toggling, gate>>
    /\ Finish(a, channel_forward(stack[a], channels, message, db),
              MessageEvent(a, "handle_channel_forward", message, "none",
                           IF message.forward_from_chat = None THEN "none" ELSE db))

(* the finally block of handle_channel_url_input without its two calls *)
channel_url_finally_skipped(stk) == stk

(* the finally block of handle_channel_url_input: done(), start(OPMenu.menu) *)
channel_url_finally(stk) == start(done(stk), OPMenu_menu, NoStartData)

(* handle_channel_url_input with the text check inside the try block, so that *)
(* the finally block also runs for a message without text                     *)
channel_url_input_checked_in_try(stk, chs, message, db, status) ==
    IF message.text = None \/ message.text = Some(<<>>)
    THEN [stk |-> channel_url_finally(set_msg_type(stk, "error_format")),
          rows |-> chs, add |-> "none"]
    ELSE LET channel_data == Top(stk).dialog_data.channel_data
         IN  IF channel_data = None
             THEN [stk |-> start(done(set_msg_type(stk, "error")), OPMenu_menu, NoStartData),
                   rows |-> chs, add |-> "none"]
             ELSE LET r == IF db = "error" THEN [result |-> "error", rows |-> chs]
                           ELSE add_channel(chs,
                                    ChannelRow(channel_data[1].channel_id,
                                               channel_data[1].channel_name,
                                               channel_data[1].channel_username,
                                               status, Strip(message.text[1])))
                  IN  [stk |-> channel_url_finally(
                                 CASE r.result = "ok" -> stk
                                   [] r.result = "unique_violation" ->
                                        set_msg_type(stk, "already_exists")
                                   [] OTHER -> set_msg_type(stk, "error")),
                       rows |-> r.rows, add |-> r.result]

(* handle_channel_url_input: the stack and table it leaves and what add returned; *)
(* db is the outcome of the connection during add_channel                         *)
channel_url_input(stk, chs, message, db, status) ==
    IF message.text = None \/ message.text = Some(<<>>)
    THEN [stk |-> set_msg_type(stk, "error_format"), rows |-> chs, add |-> "none"]
    ELSE LET channel_data == Top(stk).dialog_data.channel_data
         IN  IF channel_data = None
             THEN [stk |-> start(done(set_msg_type(stk, "error")), OPMenu_menu, NoStartData),
                   rows |-> chs, add |-> "none"]
             ELSE LET channel_url == Strip(message.text[1])
                      r == IF db = "error" THEN [result |-> "error", rows |-> chs]
                           ELSE add_channel(chs,
                                    ChannelRow(channel_data[1].channel_id,
                                               channel_data[1].channel_name,
                                               channel_data[1].channel_username,
                                               status, channel_url))
                  IN  [stk |-> channel_url_finally(
                                 CASE r.result = "ok" -> stk
                                   [] r.result = "unique_violation" ->
                                        set_msg_type(stk, "already_exists")
                                   [] OTHER -> set_msg_type(stk, "error")),
                       rows |-> r.rows, add |-> r.result]

handle_channel_url_input(a, message, db) ==
    /\ Active(a, AddChannelState_get_channel_link)
    /\ LET r == channel_url_input(stack[a], channels, message, db, default_status)
       IN  /\ Len(r.stk) <= MaxDepth
           /\ channels' = r.rows
           /\ UNCHANGED <<bots, default_status, getter_faults, toggling, gate>>
           /\ Finish(a, r.stk,
                     MessageEvent(a, "handle_channel_url_input", message, r.add, "none"))

----------------------------------------------------------------------------
(* Channel management: ChannelMenu.menu and ChannelMenu.delete_channel *)

(* handle_get_channel_info: open the detail view of a listed channel *)
handle_get_channel_info(a, item_id) ==
    /\ Active(a, OPMenu_menu)
    /\ item_id \in view[a].channel_items
    /\ Len(stack[a]) < MaxDepth
    /\ UNCHANGED <<channels, bots, default_status, getter_faults, toggling, gate>>
    /\ Finish(a, start(stack[a], ChannelMenu_menu, ChannelStartData(item_id)),
              Event(a, "handle_get_channel_info", "none", "none"))

(* SwitchTo(id="delete_channel_btn", state=ChannelMenu.delete_channel) *)
delete_channel_btn(a) ==
    /\ Active(a, ChannelMenu_menu)
    /\ UNCHANGED <<channels, bots, default_status, getter_faults, toggling, gate>>
    /\ Finish(a, switch_to(stack[a], ChannelMenu_delete_channel),
              Event(a, "delete_channel_btn", "none", "none"))

(* Start(id="cancel_delete", state=ChannelMenu.menu): a new context, no start data *)
cancel_delete_channel(a) ==
    /\ Active(a, ChannelMenu_delete_channel)
    /\ Len(stack[a]) < MaxDepth
    /\ UNCHANGED <<channels, bots, default_status, getter_faults, toggling, gate>>
    /\ Finish(a, start(stack[a], ChannelMenu_menu, NoStartData),
              Event(a, "cancel_delete_channel", "none", "none"))

(* handle_delete_channel that answers without calling delete_channel *)
delete_channel_confirmed_kept(ctx, chs, db) == chs

(* handle_delete_channel: the table it leaves; db is the outcome of delete_channel *)
delete_channel_confirmed(ctx, chs, db) ==
    LET channel_id == ctx.dialog_data.channel_id
    IN  IF channel_id = None \/ channel_id[1] = 0 \/ db = "error"
        THEN chs
        ELSE delete_channel(chs, channel_id[1])

handle_delete_channel(a, db) ==
    /\ Active(a, ChannelMenu_delete_channel)
    /\ Len(stack[a]) < MaxDepth
    /\ channels' = delete_channel_confirmed(Top(stack[a]), channels, db)
    /\ UNCHANGED <<bots, default_status, getter_faults, toggling, gate>>
    /\ Finish(a, start(stack[a], OPMenu_menu, NoStartData),
              [Event(a, "handle_delete_channel", "none",
                     IF Top(stack[a]).dialog_data.channel_id = None THEN "none" ELSE db)
                 EXCEPT !.before =
                    IF Top(stack[a]).dialog_data.channel_id # None
                       /\ Top(stack[a]).dialog_data.channel_id[1] \in ChannelKeys(channels)
                    THEN "present" ELSE "absent"])

(* the toggle writing "True" whatever it read *)
new_status_stuck(current_status) == "True"

(* new_status = "False" if current_status == "True" else "True" *)
new_status(current_status) == IF current_status = "True" THEN "False" ELSE "True"

NotToggling == None
Suspended(kind, channel_id, bot_username, current_status) ==
    Some([kind |-> kind, channel_id |-> channel_id, bot_username |-> bot_username,
          current_status |-> current_status, new_status |-> new_status(current_status)])

(* handle_toggle_channel_op_status up to the result of get_channel: it returns *)
(* early, or is suspended at update_channel_status                             *)
toggle_channel_read(a, db) ==
    /\ Active(a, ChannelMenu_menu)
    /\ UNCHANGED <<channels, bots, default_status, getter_faults, gate>>
    /\ LET channel_id == Top(stack[a]).dialog_data.channel_id
           channel_data == IF channel_id = None THEN None
                           ELSE get_channel(channels, channel_id[1])
       IN  IF channel_id = None \/ channel_id[1] = 0
           THEN /\ toggling' = toggling
                /\ Finish(a, stack[a], Event(a, "handle_toggle_channel_op_status", "none", "none"))
           ELSE IF db = "error"
           THEN /\ toggling' = toggling
                /\ Finish(a, switch_to(stack[a], ChannelMenu_menu),
                          Event(a, "handle_toggle_channel_op_status", "none", "error"))
           ELSE IF channel_data = None
           THEN /\ toggling' = toggling
                /\ Finish(a, stack[a],
                          Event(a, "handle_toggle_channel_op_status", "none", "not_found"))
           ELSE /\ toggling' = [toggling EXCEPT ![a] =
                                  Suspended("channel", channel_id[1], <<>>,
                                            channel_data[1].status)]
                /\ UNCHANGED <<stack, view, last>>

(* the update computing the new status from the status stored at the write *)
toggle_channel_update_reread(chs, t) ==
    LET row == get_channel(chs, t.channel_id)
    IN  IF row = None THEN chs
        ELSE update_channel_status(chs, new_status(row[1].status), t.channel_id)

(* await channel_actions.update_channel_status(new_status, channel_id) *)
toggle_channel_update(chs, t) == update_channel_status(chs, t.new_status, t.channel_id)

(* handle_toggle_channel_op_status whose update is applied even when the call raises *)
toggle_channel_write_applied(a, db) ==
    /\ toggling[a] # None
    /\ toggling[a][1].kind = "channel"
    /\ channels' = toggle_channel_update(channels, toggling[a][1])
    /\ toggling' = [toggling EXCEPT ![a] = NotToggling]
    /\ UNCHANGED <<bots, default_status, getter_faults, gate>>
    /\ Finish(a, switch_to(stack[a], ChannelMenu_menu),
              [Event(a, "handle_toggle_channel_op_status", "none", db) EXCEPT
                  !.before = toggling[a][1].current_status,
                  !.after = toggling[a][1].new_status,
                  !.stale = LET row == get_channel(channels, toggling[a][1].channel_id)
                            IN  row # None /\ row[1].status # toggling[a][1].current_status])

(* handle_toggle_channel_op_status from update_channel_status to its end *)
toggle_channel_write(a, db) ==
    /\ toggling[a] # None
    /\ toggling[a][1].kind = "channel"
    /\ channels' = IF db = "error" THEN channels
                   ELSE toggle_channel_update(channels, toggling[a][1])
    /\ toggling' = [toggling EXCEPT ![a] = NotToggling]
    /\ UNCHANGED <<bots, default_status, getter_faults, gate>>
    /\ Finish(a, switch_to(stack[a], ChannelMenu_menu),
              [Event(a, "handle_toggle_channel_op_status", "none", db) EXCEPT
                  !.before = toggling[a][1].current_status,
                  !.after = toggling[a][1].new_status,
                  !.stale = LET row == get_channel(channels, toggling[a][1].channel_id)
                            IN  row # None /\ row[1].status # toggling[a][1].current_status])

----------------------------------------------------------------------------
(* Bot registration: AddBotState.get_bot_username -> get_bot_link -> get_bot_name *)

(* handle_bot_username_input looking up the text before the "@" is removed *)
bot_username_input_raw_lookup(stk, bts, message, db) ==
    IF message.text = None \/ message.text = Some(<<>>)
    THEN set_msg_type(stk, "error_format")
    ELSE LET bot_username == CleanUsername(message.text[1])
         IN  IF db = "error"
             THEN set_msg_type(stk, "error")
             ELSE IF get_bot(bts, Strip(message.text[1])) # None
             THEN set_msg_type(stk, "already_exists")
             ELSE switch_to(
                    [stk EXCEPT ![Len(stk)].dialog_data.bot_username = Some(bot_username)],
                    AddBotState_get_bot_link)

(* handle_bot_username_input: the stack it leaves; db is the outcome of get_bot *)
bot_username_input(stk, bts, message, db) ==
    IF message.text = None \/ message.text = Some(<<>>)
    THEN set_msg_type(stk, "error_format")
    ELSE LET bot_username == CleanUsername(message.text[1])
         IN  IF db = "error"
             THEN set_msg_type(stk, "error")
             ELSE IF get_bot(bts, bot_username) # None
             THEN set_msg_type(stk, "already_exists")
             ELSE switch_to(
                    [stk EXCEPT ![Len(stk)].dialog_data.bot_username = Some(bot_username)],
                    AddBotState_get_bot_link)

handle_bot_username_input(a, message, db) ==
    /\ Active(a, AddBotState_get_bot_username)
    /\ UNCHANGED <<channels, bots, default_status, getter_faults, toggling, gate>>
    /\ Finish(a, bot_username_input(stack[a], bots, message, db),
              MessageEvent(a, "handle_bot_username_input", message, "none",
                           IF message.text = None THEN "none" ELSE db))

(* handle_bot_url_input: the stack it leaves *)
bot_url_input(stk, message) ==
    IF message.text = None \/ message.text = Some(<<>>)
    THEN set_msg_type(stk, "error_format")
    ELSE switch_to(
           [stk EXCEPT ![Len(stk)].dialog_data.bot_url = Some(Strip(message.text[1]))],
           AddBotState_get_bot_name)

handle_bot_url_input(a, message) ==
    /\ Active(a, AddBotState_get_bot_link)
    /\ UNCHANGED <<channels, bots, default_status, getter_faults, toggling, gate>>
    /\ Finish(a, bot_url_input(stack[a], message),
              MessageEvent(a, "handle_bot_url_input", message, "none", "none"))

(* handle_default_bot_url: the stack it leaves *)
default_bot_url(stk) ==
    LET bot_username == Top(stk).dialog_data.bot_username
    IN  IF ~TruthyText(bot_username)
        THEN stk
        ELSE switch_to(
               [stk EXCEPT ![Len(stk)].dialog_data.bot_url =
                               Some(DefaultBotUrl(bot_username[1]))],
               AddBotState_get_bot_name)

handle_default_bot_url(a) ==
    /\ Active(a, AddBotState_get_bot_link)
    /\ UNCHANGED <<channels, bots, default_status, getter_faults, toggling, gate>>
    /\ Finish(a, default_bot_url(stack[a]),
              Event(a, "handle_default_bot_url", "none", "none"))

(* the finally block of handle_bot_name_input: done(), start(OPMenu.menu) *)
bot_name_finally(stk) == start(done(stk), OPMenu_menu, NoStartData)

(* handle_bot_name_input passing the name and the handle to add_bot in each *)
(* other's place                                                           *)
bot_name_input_swapped(stk, bts, message, db, status) ==
    IF message.text = None \/ message.text = Some(<<>>)
    THEN [stk |-> set_msg_type(stk, "error_format"), rows |-> bts, add |-> "none"]
    ELSE LET bot_name == Strip(message.text[1])
             bot_username == Top(stk).dialog_data.bot_username
             bot_url == Top(stk).dialog_data.bot_url
         IN  IF ~TruthyText(bot_username) \/ ~TruthyText(bot_url)
             THEN [stk |-> start(done(set_msg_type(stk, "error")), OPMenu_menu, NoStartData),
                   rows |-> bts, add |-> "none"]
             ELSE LET r == IF db = "error" THEN [result |-> "error", rows |-> bts]
                           ELSE add_bot(bts, BotRow(bot_username[1], bot_name,
                                                    status, bot_url[1]))
                  IN  [stk |-> bot_name_finally(
                                 CASE r.result = "ok" -> stk
                                   [] r.result = "unique_violation" ->
                                        set_msg_type(stk, "already_exists")
                                   [] OTHER -> set_msg_type(stk, "error")),
                       rows |-> r.rows, add |-> r.result]

(* handle_bot_name_input: the stack and table it leaves and what add returned; *)
(* db is the outcome of the connection during add_bot                          *)
bot_name_input(stk, bts, message, db, status) ==
    IF message.text = None \/ message.text = Some(<<>>)
    THEN [stk |-> set_msg_type(stk, "error_format"), rows |-> bts, add |-> "none"]
    ELSE LET bot_name == Strip(message.text[1])
             bot_username == Top(stk).dialog_data.bot_username
             bot_url == Top(stk).dialog_data.bot_url
         IN  IF ~TruthyText(bot_username) \/ ~TruthyText(bot_url)
             THEN [stk |-> start(done(set_msg_type(stk, "error")), OPMenu_menu, NoStartData),
                   rows |-> bts, add |-> "none"]
             ELSE LET r == IF db = "error" THEN [result |-> "error", rows |-> bts]
                           ELSE add_bot(bts, BotRow(bot_name, bot_username[1],
                                                    status, bot_url[1]))
                  IN  [stk |-> bot_name_finally(
                                 CASE r.result = "ok" -> stk
                                   [] r.result = "unique_violation" ->
                                        set_msg_type(stk, "already_exists")
                                   [] OTHER -> set_msg_type(stk, "error")),
                       rows |-> r.rows, add |-> r.result]

handle_bot_name_input(a, message, db) ==
    /\ Active(a, AddBotState_get_bot_name)
    /\ LET r == bot_name_input(stack[a], bots, message, db, default_status)
       IN  /\ Len(r.stk) <= MaxDepth
           /\ bots' = r.rows
           /\ UNCHANGED <<channels, default_status, getter_faults, toggling, gate>>
           /\ Finish(a, r.stk,
                     MessageEvent(a, "handle_bot_name_input", message, r.add, "none"))

----------------------------------------------------------------------------
(* Bot management: BotMenu.menu and BotMenu.delete_bot *)

(* handle_get_bot_info: open the detail view of a listed bot *)
handle_get_bot_info(a, item_id) ==
    /\ Active(a, OPMenu_menu)
    /\ item_id \in view[a].bot_items
    /\ Len(stack[a]) < MaxDepth
    /\ UNCHANGED <<channels, bots, default_status, getter_faults, toggling, gate>>
    /\ Finish(a, start(stack[a], BotMenu_menu, BotStartData(item_id)),
              Event(a, "handle_get_bot_info", "none", "none"))

(* SwitchTo(id="delete_bot_btn", state=BotMenu.delete_bot) *)
delete_bot_btn(a) ==
    /\ Active(a, BotMenu_menu)
    /\ UNCHANGED <<channels, bots, default_status, getter_faults, toggling, gate>>
    /\ Finish(a, switch_to(stack[a], BotMenu_delete_bot),
              Event(a, "delete_bot_btn", "none", "none"))

(* SwitchTo(id="cancel_delete", state=BotMenu.menu) *)
cancel_delete_bot(a) ==
    /\ Active(a, BotMenu_delete_bot)
    /\ UNCHANGED <<channels, bots, default_status, getter_faults, toggling, gate>>
    /\ Finish(a, switch_to(stack[a], BotMenu_menu),
              Event(a, "cancel_delete_bot", "none", "none"))

(* handle_delete_bot: the table it leaves; db is the outcome of delete_bot *)
delete_bot_confirmed(ctx, bts, db) ==
    LET bot_username == ctx.dialog_data.bot_username
    IN  IF ~TruthyText(bot_username) \/ db = "error"
        THEN bts
        ELSE delete_bot(bts, bot_username[1])

handle_delete_bot(a, db) ==
    /\ Active(a, BotMenu_delete_bot)
    /\ Len(stack[a]) < MaxDepth
    /\ bots' = delete_bot_confirmed(Top(stack[a]), bots, db)
    /\ UNCHANGED <<channels, default_status, getter_faults, toggling, gate>>
    /\ Finish(a, start(stack[a], OPMenu_menu, NoStartData),
              [Event(a, "handle_delete_bot", "none",
                     IF ~TruthyText(Top(stack[a]).dialog_data.bot_username)
                     THEN "none" ELSE db)
                 EXCEPT !.before =
                    IF Top(stack[a]).dialog_data.bot_username # None
                       /\ Top(stack[a]).dialog_data.bot_username[1] \in BotKeys(bots)
                    THEN "present" ELSE "absent"])

(* handle_toggle_bot_op_status up to the result of get_bot *)
toggle_bot_read(a, db) ==
    /\ Active(a, BotMenu_menu)
    /\ UNCHANGED <<channels, bots, default_status, getter_faults, gate>>
    /\ LET bot_username == Top(stack[a]).dialog_data.bot_username
           bot_data == IF bot_username = None THEN None
                       ELSE get_bot(bots, bot_username[1])
       IN  IF ~TruthyText(bot_username)
           THEN /\ toggling' = toggling
                /\ Finish(a, stack[a], Event(a, "handle_toggle_bot_op_status", "none", "none"))
           ELSE IF db = "error"
           THEN /\ toggling' = toggling
                /\ Finish(a, switch_to(stack[a], BotMenu_menu),
                          Event(a, "handle_toggle_bot_op_status", "none", "error"))
           ELSE IF bot_data = None
           THEN /\ toggling' = toggling
                /\ Finish(a, stack[a],
                          Event(a, "handle_toggle_bot_op_status", "none", "not_found"))
           ELSE /\ toggling' = [toggling EXCEPT ![a] =
                                  Suspended("bot", 0, bot_username[1], bot_data[1].status)]
                /\ UNCHANGED <<stack, view, last>>

(* await bot_actions.update_bot_status(new_status, bot_username) *)
toggle_bot_update(bts, t) == update_bot_status(bts, t.new_status, t.bot_username)

(* handle_toggle_bot_op_status from update_bot_status to its end *)
toggle_bot_write(a, db) ==
    /\ toggling[a] # None
    /\ toggling[a][1].kind = "bot"
    /\ bots' = IF db = "error" THEN bots ELSE toggle_bot_update(bots, toggling[a][1])
    /\ toggling' = [toggling EXCEPT ![a] = NotToggling]
    /\ UNCHANGED <<channels, default_status, getter_faults, gate>>
    /\ Finish(a, switch_to(stack[a], BotMenu_menu),
              [Event(a, "handle_toggle_bot_op_status", "none", db) EXCEPT
                  !.before = toggling[a][1].current_status,
                  !.after = toggling[a][1].new_status,
                  !.stale = LET row == get_bot(bots, toggling[a][1].bot_username)
                            IN  row # None /\ row[1].status # toggling[a][1].current_status])

----------------------------------------------------------------------------
(* OP menu and navigation *)

(* Start(id="add_channel_btn", state=AddChannelState.get_channel_data) *)
add_channel_btn(a) ==
    /\ Active(a, OPMenu_menu)
    /\ Len(stack[a]) < MaxDepth
    /\ UNCHANGED <<channels, bots, default_status, getter_faults, toggling, gate>>
    /\ Finish(a, start(stack[a], AddChannelState_get_channel_data, NoStartData),
              Event(a, "add_channel_btn", "none", "none"))

(* Start(id="add_bot_btn", state=AddBotState.get_bot_username) *)
add_bot_btn(a) ==
    /\ Active(a, OPMenu_menu)
    /\ Len(stack[a]) < MaxDepth
    /\ UNCHANGED <<channels, bots, default_status, getter_faults, toggling, gate>>
    /\ Finish(a, start(stack[a], AddBotState_get_bot_username, NoStartData),
              Event(a, "add_bot_btn", "none", "none"))

(* Start(id="back_to_op_menu", state=OPMenu.menu), the Back button of seven windows *)
back_to_op_menu(a) ==
    /\ \E w \in BackToOpMenuWindows : Active(a, w)
    /\ Len(stack[a]) < MaxDepth
    /\ UNCHANGED <<channels, bots, default_status, getter_faults, toggling, gate>>
    /\ Finish(a, start(stack[a], OPMenu_menu, NoStartData),
              Event(a, "back_to_op_menu", "none", "none"))

(* handle_dialog_done: the Back button of the OP menu closes its context *)
handle_dialog_done(a) ==
    /\ Active(a, OPMenu_menu)
    /\ UNCHANGED <<channels, bots, default_status, getter_faults, toggling, gate>>
    /\ Finish(a, done(stack[a]), Event(a, "handle_dialog_done", "none", "none"))

(* the admin menu opens the OP menu again *)
open_op_menu(a) ==
    /\ toggling[a] = None
    /\ stack[a] = <<>>
    /\ UNCHANGED <<channels, bots, default_status, getter_faults, toggling, gate>>
    /\ Finish(a, start(stack[a], OPMenu_menu, NoStartData),
              Event(a, "open_op_menu", "none", "none"))

----------------------------------------------------------------------------
(* Membership gate: check_channel_sub_message / check_channel_sub_call *)

MemberStatuses == {"member", "administrator", "creator", "left"}
QueryFailed == "query_failed"

(* the gate that counts only plain members as subscribed *)
is_subscribed_member_only(status) == status = "member"

(* user_status.status in ["member", "administrator", "creator"] *)
is_subscribed(status) == status \in {"member", "administrator", "creator"}

(* the loop with the query in a try block: a failed query counts the channel *)
(* as not joined and the loop goes on                                       *)
RECURSIVE check_channel_sub_caught(_, _, _, _, _)
check_channel_sub_caught(channel_data, i, member_status, not_sub_channels, queried) ==
    IF i > Len(channel_data)
    THEN [raised |-> FALSE, not_sub_channels |-> not_sub_channels, queried |-> queried]
    ELSE LET channel == channel_data[i]
         IN  IF channel.status = "True"
             THEN IF member_status[channel.id] = QueryFailed
                     \/ ~is_subscribed(member_status[channel.id])
                  THEN check_channel_sub_caught(channel_data, i + 1, member_status,
                                                Append(not_sub_channels, channel),
                                                Append(queried, channel.id))
                  ELSE check_channel_sub_caught(channel_data, i + 1, member_status,
                                                not_sub_channels, Append(queried, channel.id))
             ELSE check_channel_sub_caught(channel_data, i + 1, member_status,
                                           not_sub_channels, queried)

(* the loop over channel_data from index i: member_status is what get_chat_member *)
(* returns per chat id, or QueryFailed when the call raises                       *)
RECURSIVE check_channel_sub(_, _, _, _, _)
check_channel_sub(channel_data, i, member_status, not_sub_channels, queried) ==
    IF i > Len(channel_data)
    THEN [raised |-> FALSE, not_sub_channels |-> not_sub_channels, queried |-> queried]
    ELSE LET channel == channel_data[i]
         IN  IF channel.status = "True"
             THEN IF member_status[channel.id] = QueryFailed
                  THEN [raised |-> TRUE, not_sub_channels |-> not_sub_channels,
                        queried |-> Append(queried, channel.id)]
                  ELSE IF ~is_subscribed(member_status[channel.id])
                  THEN check_channel_sub(channel_data, i + 1, member_status,
                                         Append(not_sub_channels, channel),
                                         Append(queried, channel.id))
                  ELSE check_channel_sub(channel_data, i + 1, member_status,
                                         not_sub_channels, Append(queried, channel.id))
             ELSE check_channel_sub(channel_data, i + 1, member_status,
                                    not_sub_channels, queried)

NoGate == [handler |-> "", channel_data |-> <<>>, member_status |-> <<>>,
           queried |-> <<>>, not_sub_channels |-> <<>>, bot_list |-> <<>>,
           raised |-> FALSE, answered |-> FALSE]

GateResult(handler, channel_data, member_status) ==
    LET r == check_channel_sub(channel_data, 1, member_status, <<>>, <<>>)
    IN  [handler |-> handler, channel_data |-> channel_data,
         member_status |-> member_status,
         queried |-> r.queried, not_sub_channels |-> r.not_sub_channels,
         bot_list |-> bots, raised |-> r.raised, answered |-> ~r.raised]

(* a message of a user the CheckSubscription filter lets through to the gate *)
check_channel_sub_message(channel_data, member_status) ==
    /\ gate = NoGate
    /\ gate' = GateResult("check_channel_sub_message", channel_data, member_status)
    /\ UNCHANGED <<channels, bots, default_status, getter_faults, stack, view, toggling, last>>

(* a button press of such a user *)
check_channel_sub_call(channel_data, member_status) ==
    /\ gate = NoGate
    /\ gate' = GateResult("check_channel_sub_call", channel_data, member_status)
    /\ UNCHANGED <<channels, bots, default_status, getter_faults, stack, view, toggling, last>>

----------------------------------------------------------------------------
(* Specifications *)

Init ==
    /\ channels = <<>>
    /\ bots = <<>>
    /\ default_status \in StatusLiterals
    /\ getter_faults = FALSE
    /\ stack = [a \in Admins |-> start(<<>>, OPMenu_menu, NoStartData)]
    /\ view = [a \in Admins |-> get_op_menu_data(<<>>, <<>>)]
    /\ toggling = [a \in Admins |-> NotToggling]
    /\ last = NoEvent
    /\ gate = NoGate

(* one event of a registration dialog of admin a: its message drawn from msgs, *)
(* the outcome of its get call from get_dbs and of its add call from add_dbs   *)
RegistrationStep(a, msgs, get_dbs, add_dbs) ==
    \/ \E m \in msgs, db \in get_dbs : handle_channel_forward(a, m, db)
    \/ \E m \in msgs, db \in add_dbs : handle_channel_url_input(a, m, db)
    \/ \E m \in msgs, db \in get_dbs : handle_bot_username_input(a, m, db)
    \/ \E m \in msgs : handle_bot_url_input(a, m)
    \/ handle_default_bot_url(a)
    \/ \E m \in msgs, db \in add_dbs : handle_bot_name_input(a, m, db)
    \/ add_channel_btn(a)
    \/ add_bot_btn(a)

(* one event of a management dialog of admin a *)
ManagementStep(a, chats, texts, dbs) ==
    \/ \E item_id \in {c.id : c \in chats} : handle_get_channel_info(a, item_id)
    \/ delete_channel_btn(a)
    \/ cancel_delete_channel(a)
    \/ \E db \in dbs : handle_delete_channel(a, db)
    \/ \E db \in dbs : toggle_channel_read(a, db)
    \/ \E db \in dbs : toggle_channel_write(a, db)
    \/ \E item_id \in {CleanUsername(t) : t \in texts} : handle_get_bot_info(a, item_id)
    \/ delete_bot_btn(a)
    \/ cancel_delete_bot(a)
    \/ \E db \in dbs : handle_delete_bot(a, db)
    \/ \E db \in dbs : toggle_bot_read(a, db)
    \/ \E db \in dbs : toggle_bot_write(a, db)

(* a Back button, or the way back into the OP menu *)
NavigationStep(a) ==
    \/ back_to_op_menu(a)
    \/ handle_dialog_done(a)
    \/ open_op_menu(a)

(* one admin conversation, every input and every datastore outcome *)
Next ==
    \E a \in SoloAdmins :
        \/ RegistrationStep(a, Messages(Chats, Texts), DbOutcomes, DbOutcomes)
        \/ ManagementStep(a, Chats, Texts, DbOutcomes)
        \/ NavigationStep(a)

Spec == Init /\ [][Next]_vars

(* one admin conversation in which the datastore calls of the getters may fail too *)
InitFault ==
    /\ channels = <<>>
    /\ bots = <<>>
    /\ default_status \in StatusLiterals
    /\ getter_faults = TRUE
    /\ stack = [a \in Admins |-> start(<<>>, OPMenu_menu, NoStartData)]
    /\ view = [a \in Admins |-> get_op_menu_data(<<>>, <<>>)]
    /\ toggling = [a \in Admins |-> NotToggling]
    /\ last = NoEvent
    /\ gate = NoGate

SpecFault == InitFault /\ [][Next]_vars

(* two admin conversations registering, interleaved at their datastore calls *)
NextConc ==
    \E a \in Admins :
        \/ RegistrationStep(a, ConcMessages, {"ok"}, DbOutcomes)
        \/ NavigationStep(a)

SpecConc == Init /\ [][NextConc]_vars

(* two admin conversations managing the entities registered before *)
InitRace ==
    /\ default_status \in StatusLiterals
    /\ getter_faults = FALSE
    /\ channels = <<ChannelRow(555, "Unnamed Channel", "films", default_status, <<"@", "a">>)>>
    /\ bots = <<BotRow(<<"@", "a">>, <<"a">>, default_status, DefaultBotUrl(<<"a">>))>>
    /\ stack = [a \in Admins |-> start(<<>>, OPMenu_menu, NoStartData)]
    /\ view = [a \in Admins |-> get_op_menu_data(channels, bots)]
    /\ toggling = [a \in Admins |-> NotToggling]
    /\ last = NoEvent
    /\ gate = NoGate

NextRace ==
    \E a \in Admins :
        \/ ManagementStep(a, Chats, ConcTexts, DbOutcomes)
        \/ NavigationStep(a)

SpecRace == InitRace /\ [][NextRace]_vars

(* the membership gate over every table of up to MaxGateChannels channels *)
GateTable(present) ==
    LET f == [i \in 1..MaxGateChannels |->
                ChannelRow(i, "News", "", present[i], <<"a">>)]
    IN  SelectSeq(f, LAMBDA r : r.status # "absent")

InitGate ==
    /\ channels \in { GateTable(p) : p \in [1..MaxGateChannels -> StatusLiterals \cup {"absent"}] }
    /\ bots = <<>>
    /\ default_status = "True"
    /\ getter_faults = FALSE
    /\ stack = [a \in Admins |-> start(<<>>, OPMenu_menu, NoStartData)]
    /\ view = [a \in Admins |-> get_op_menu_data(channels, bots)]
    /\ toggling = [a \in Admins |-> NotToggling]
    /\ last = NoEvent
    /\ gate = NoGate

NextGate ==
    /\ gate = NoGate
    /\ \E channel_data \in get_all_channels(channels),
          member_status \in [ChannelKeys(channels) -> MemberStatuses \cup {QueryFailed}] :
            \/ check_channel_sub_message(channel_data, member_status)
            \/ check_channel_sub_call(channel_data, member_status)

SpecGate == InitGate /\ [][NextGate]_vars

----------------------------------------------------------------------------
(* Properties *)

(* the step is an event handled to its end, not a toggle being suspended *)
EventStep == \A a \in Admins : toggling[a] = None => toggling'[a] = None

(* who handled the event of this step *)
Actor == last'.who

ActiveRows(channel_data) == SelectSeq(channel_data, LAMBDA ch : ch.status = "True")

(* C1: a membership check that ends without a failed query lists exactly the *)
(* channels whose status is "True" and whose queried role is none of member, *)
(* administrator, creator, in the order of the channel list; it issues one   *)
(* query per active channel, in that order, and none for any other channel.  *)
GateListsExactlyUnsatisfied ==
    gate.handler # "" =>
        /\ \A i \in DOMAIN gate.queried :
              \E j \in DOMAIN gate.channel_data :
                  /\ gate.channel_data[j].id = gate.queried[i]
                  /\ gate.channel_data[j].status = "True"
        /\ \A i, j \in DOMAIN gate.queried : gate.queried[i] = gate.queried[j] => i = j
        /\ ~gate.raised =>
              /\ gate.answered
              /\ gate.queried =
                    [i \in DOMAIN ActiveRows(gate.channel_data) |->
                        ActiveRows(gate.channel_data)[i].id]
              /\ gate.not_sub_channels =
                    SelectSeq(gate.channel_data,
                              LAMBDA ch : /\ ch.status = "True"
                                          /\ gate.member_status[ch.id] \notin
                                                {"member", "administrator", "creator"})

(* a check over three channels, one inactive, one joined as administrator and one not joined *)
GateWitness ==
    /\ gate.answered
    /\ Len(gate.channel_data) = 3
    /\ Len(gate.queried) = 2
    /\ Len(gate.not_sub_channels) = 1
    /\ \E i \in DOMAIN gate.channel_data :
          /\ gate.channel_data[i].status = "True"
          /\ gate.member_status[gate.channel_data[i].id] = "administrator"
    /\ gate.channel_data[1].id > gate.channel_data[2].id

(* no two rows of a table share the key *)
UniqueKeys ==
    /\ \A i, j \in DOMAIN channels : channels[i].id = channels[j].id => i = j
    /\ \A i, j \in DOMAIN bots : bots[i].username = bots[j].username => i = j

(* what the add call of this step returned, against the table before and after *)
AddOutcome ==
    (EventStep /\ last'.add # "none") =>
        LET ctx == Top(stack[Actor])
        IN  IF last'.handler = "handle_channel_url_input"
            THEN LET k == ctx.dialog_data.channel_data[1].channel_id
                 IN  /\ bots' = bots
                     /\ last'.add = "ok" =>
                           /\ k \notin ChannelKeys(channels)
                           /\ Len(channels') = Len(channels) + 1
                           /\ SubSeq(channels', 1, Len(channels)) = channels
                           /\ channels'[Len(channels')].id = k
                     /\ last'.add = "unique_violation" =>
                           k \in ChannelKeys(channels) /\ channels' = channels
                     /\ last'.add = "error" => channels' = channels
                     /\ (k \in ChannelKeys(channels) /\ last'.add # "error") =>
                           last'.add = "unique_violation"
            ELSE LET k == ctx.dialog_data.bot_username[1]
                 IN  /\ last'.handler = "handle_bot_name_input"
                     /\ channels' = channels
                     /\ last'.add = "ok" =>
                           /\ k \notin BotKeys(bots)
                           /\ Len(bots') = Len(bots) + 1
                           /\ SubSeq(bots', 1, Len(bots)) = bots
                           /\ bots'[Len(bots')].username = k
                     /\ last'.add = "unique_violation" =>
                           k \in BotKeys(bots) /\ bots' = bots
                     /\ last'.add = "error" => bots' = bots
                     /\ (k \in BotKeys(bots) /\ last'.add # "error") =>
                           last'.add = "unique_violation"

(* C2: with registration flows of several conversations interleaved between  *)
(* the existence check and the add, a table never holds two rows with the    *)
(* same key (channel id, bot handle); an add whose key is absent appends one *)
(* row and returns, an add whose key is present gets the duplicate-key error *)
(* and leaves the table as it was, so of two conversations that passed the   *)
(* check for one key exactly one add succeeds.                               *)
KeysStayUnique ==
    /\ UniqueKeys
    /\ [][UniqueKeys' /\ AddOutcome]_vars

(* two conversations passed the check for channel 555; the first add succeeded *)
(* and the second has just got the duplicate-key error                         *)
SecondAddRejected ==
    /\ last.handler = "handle_channel_url_input"
    /\ last.add = "unique_violation"
    /\ Len(channels) = 1
    /\ channels[1].id = 555

(* the message of this step carries text (message.text is truthy) *)
HasText == last'.message.text # None /\ last'.message.text # Some(<<>>)

(* the context the event of this step was delivered to *)
Before == Top(stack[Actor])

(* the registration flow of the actor ended and the OP menu is open in its place *)
EndedAtOpMenu ==
    /\ stack'[Actor] = start(done(stack[Actor]), OPMenu_menu, NoStartData)
    /\ view'[Actor] = get_op_menu_data(channels', bots')
    /\ ~last'.escaped

(* a forward of a chat without a record stashes the extracted triple and asks for the URL *)
ForwardStashes ==
    (/\ last'.handler = "handle_channel_forward"
     /\ last'.message.forward_from_chat # None
     /\ last'.db = "ok"
     /\ last'.message.forward_from_chat[1].id \notin ChannelKeys(channels)) =>
        LET chat == last'.message.forward_from_chat[1]
        IN  /\ Before.state = AddChannelState_get_channel_data
            /\ stack'[Actor] =
                  [stack[Actor] EXCEPT
                      ![Len(stack[Actor])].state = AddChannelState_get_channel_link,
                      ![Len(stack[Actor])].dialog_data.channel_data =
                          Some([channel_name |-> IF chat.full_name = "" THEN "Unnamed Channel"
                                                 ELSE chat.full_name,
                                channel_id |-> chat.id,
                                channel_username |-> chat.username])]
            /\ view'[Actor].state = AddChannelState_get_channel_link
            /\ last'.add = "none"
            /\ channels' = channels /\ bots' = bots

(* the URL text that follows makes the one add call, which stores the row *)
UrlStores ==
    (/\ last'.handler = "handle_channel_url_input"
     /\ HasText
     /\ Before.dialog_data.channel_data # None
     /\ Before.dialog_data.channel_data[1].channel_id \notin ChannelKeys(channels)
     /\ last'.add # "error") =>
        LET channel_data == Before.dialog_data.channel_data[1]
        IN  /\ last'.add = "ok"
            /\ channels' = Append(channels,
                                  [id |-> channel_data.channel_id,
                                   name |-> channel_data.channel_name,
                                   username |-> channel_data.channel_username,
                                   status |-> default_status,
                                   url |-> Strip(last'.message.text[1])])
            /\ bots' = bots
            /\ EndedAtOpMenu
            /\ channel_data.channel_id \in view'[Actor].channel_items

(* C3: in await-forward a forwarded post from chat X that has no record      *)
(* stashes X, the name (or "Unnamed Channel") and the handle of the chat and *)
(* moves to await-url; a text carrying URL U sent there, when the add call   *)
(* meets no storage error, appends the channel X with that name and handle   *)
(* and with URL U (the text without surrounding whitespace) in one add call, *)
(* ends the registration flow and leaves the conversation at the OP menu.    *)
ChannelHappyPath == [][EventStep => (ForwardStashes /\ UrlStores)]_vars

(* channel 555 was forwarded and registered with the URL "@a" sent as " @a" *)
ChannelRegistered ==
    /\ last.handler = "handle_channel_url_input"
    /\ last.add = "ok"
    /\ last.message.text = Some(<<" ", "@", "a">>)
    /\ channels = <<ChannelRow(555, "Unnamed Channel", "films", default_status, <<"@", "a">>)>>
    /\ Top(stack[last.who]).state = OPMenu_menu
    /\ view[last.who].channel_items = {555}

(* a context in await-url that a forward of an already stored chat id opened: *)
(* it carries the discriminator of that forward, or no stashed channel_data   *)
DuplicatePath(ctx) ==
    /\ ctx.state = AddChannelState_get_channel_link
    /\ \/ ctx.dialog_data.channel_data = None
       \/ ctx.dialog_data.msg_type = "already_exists"

(* a forward of a stored chat id goes straight to await-url with already_exists *)
ForwardOfStored ==
    (/\ last'.handler = "handle_channel_forward"
     /\ last'.message.forward_from_chat # None
     /\ last'.db = "ok"
     /\ last'.message.forward_from_chat[1].id \in ChannelKeys(channels)) =>
        /\ Before.state = AddChannelState_get_channel_data
        /\ stack'[Actor] =
              [stack[Actor] EXCEPT
                  ![Len(stack[Actor])].state = AddChannelState_get_channel_link,
                  ![Len(stack[Actor])].dialog_data.msg_type = "already_exists"]
        /\ DuplicatePath(Top(stack'[Actor]))
        /\ view'[Actor].state = AddChannelState_get_channel_link
        /\ view'[Actor].msg_type = "already_exists"
        /\ channels' = channels /\ bots' = bots

(* whatever is sent to a context of the duplicate path, the tables stay as they are *)
DuplicatePathKeepsStore ==
    (stack[Actor] # <<>> /\ DuplicatePath(Before)) =>
        /\ channels' = channels
        /\ bots' = bots
        /\ UniqueKeys'

(* C4: a forward of a chat id that has a record moves the conversation from  *)
(* await-forward to await-url with the discriminator already_exists, and no  *)
(* input sent there afterwards adds a second row for the id or changes the   *)
(* name, handle, status or URL of the stored one.                            *)
DuplicateForwardIsSafe == [][EventStep => (ForwardOfStored /\ DuplicatePathKeepsStore)]_vars

(* a text was sent in the duplicate path of the stored channel 555 *)
DuplicateForwardAnswered ==
    /\ last.handler = "handle_channel_url_input"
    /\ last.message.text # None
    /\ last.add = "none"
    /\ 555 \in ChannelKeys(channels)
    /\ Len(channels) = 1
    /\ view[last.who].state = OPMenu_menu

(* C5 as stated: a text URL sent in the duplicate path makes the flow call   *)
(* add again for the id, and that call fails with the duplicate-key error.   *)
DuplicatePathCallsAdd ==
    [][(/\ EventStep
        /\ last'.handler = "handle_channel_url_input"
        /\ HasText
        /\ DuplicatePath(Before)) => last'.add = "unique_violation"]_vars

(* C5: a text URL sent in the duplicate path finds no channel_data stashed:  *)
(* the handler makes no add call, sets the discriminator error, ends the     *)
(* flow and opens the OP menu, and the tables stay as they are.              *)
DuplicatePathSkipsAdd ==
    [][(/\ EventStep
        /\ last'.handler = "handle_channel_url_input"
        /\ HasText
        /\ DuplicatePath(Before)) =>
            /\ last'.add = "none"
            /\ EndedAtOpMenu
            /\ channels' = channels /\ bots' = bots]_vars

(* after a forward of the stored channel 555 a URL text was sent and no add was called *)
DuplicatePathLeft ==
    /\ last.handler = "handle_channel_url_input"
    /\ last.message.text = Some(<<" ", "@", "a">>)
    /\ last.add = "none"
    /\ ~last.escaped
    /\ 555 \in ChannelKeys(channels)
    /\ Top(stack[last.who]).state = OPMenu_menu

(* C6: every add call of a registration flow (channel in await-url, bot in   *)
(* await-name), whether it returns, fails with the duplicate-key error or    *)
(* fails with another storage error, is followed in the same handler by the  *)
(* end of the flow and the opening of the OP menu: the conversation is not   *)
(* in await-url or await-name once add has been called.                      *)
AddEndsFlow ==
    [][(EventStep /\ last'.add # "none") =>
          /\ Before.state \in {AddChannelState_get_channel_link, AddBotState_get_bot_name}
          /\ last'.add \in {"ok", "unique_violation", "error"}
          /\ EndedAtOpMenu
          /\ Top(stack'[Actor]).state = OPMenu_menu
          /\ view'[Actor].state = OPMenu_menu
          /\ Len(stack'[Actor]) = Len(stack[Actor])]_vars

(* the add of a bot failed with the duplicate-key error and the OP menu is open *)
BotAddRejectedAtOpMenu ==
    /\ last.handler = "handle_bot_name_input"
    /\ last.add = "unique_violation"
    /\ Top(stack[last.who]).state = OPMenu_menu
    /\ view[last.who].bot_items = {<<"a">>}

(* C7 as stated: when add fails with the duplicate-key error in the last     *)
(* step of a registration flow, the conversation stays in that state and its *)
(* next rendering uses the discriminator already_exists.                     *)
DuplicateAddStays ==
    [][(EventStep /\ last'.add = "unique_violation") =>
          /\ Top(stack'[Actor]).state = Before.state
          /\ view'[Actor].state = Before.state
          /\ view'[Actor].msg_type = "already_exists"]_vars

(* the step is the write of a toggle whose update call returned *)
ToggleWritten(handler) ==
    /\ EventStep
    /\ last'.handler = handler
    /\ last'.after # ""
    /\ last'.db = "ok"

(* the event before this step was a toggle of the same window whose update returned *)
ToggledJustBefore(handler) ==
    /\ last.handler = handler
    /\ last.who = Actor
    /\ last.after # ""
    /\ last.db = "ok"

(* the row of this key alone changes, and only in its status, to the other literal *)
ChannelStatusFlipped(channel_id) ==
    /\ channel_id \in ChannelKeys(channels)
    /\ DOMAIN channels' = DOMAIN channels
    /\ \A i \in DOMAIN channels :
          IF channels[i].id = channel_id
          THEN /\ channels[i].status = "True" => channels'[i].status = "False"
               /\ channels[i].status = "False" => channels'[i].status = "True"
               /\ [channels'[i] EXCEPT !.status = channels[i].status] = channels[i]
          ELSE channels'[i] = channels[i]
    /\ bots' = bots

BotStatusFlipped(bot_username) ==
    /\ bot_username \in BotKeys(bots)
    /\ DOMAIN bots' = DOMAIN bots
    /\ \A i \in DOMAIN bots :
          IF bots[i].username = bot_username
          THEN /\ bots[i].status = "True" => bots'[i].status = "False"
               /\ bots[i].status = "False" => bots'[i].status = "True"
               /\ [bots'[i] EXCEPT !.status = bots[i].status] = bots[i]
          ELSE bots'[i] = bots[i]
    /\ channels' = channels

(* C8: with a single admin and no storage error, one toggle of a stored      *)
(* channel or bot whose status is "True" or "False" leaves the stored status *)
(* at the other literal and changes no other field and no other row; a       *)
(* second toggle right after it leaves the status the first one had read.    *)
ToggleRoundTrip ==
    [][/\ ToggleWritten("handle_toggle_channel_op_status") =>
            LET channel_id == toggling[Actor][1].channel_id
            IN  /\ ChannelStatusFlipped(channel_id)
                /\ ToggledJustBefore("handle_toggle_channel_op_status") =>
                      get_channel(channels', channel_id)[1].status = last.before
       /\ ToggleWritten("handle_toggle_bot_op_status") =>
            LET bot_username == toggling[Actor][1].bot_username
            IN  /\ BotStatusFlipped(bot_username)
                /\ ToggledJustBefore("handle_toggle_bot_op_status") =>
                      get_bot(bots', bot_username)[1].status = last.before]_vars

(* channel 555 has been toggled away from the status it was registered with and back *)
ToggledBack ==
    /\ last.handler = "handle_toggle_channel_op_status"
    /\ last.db = "ok"
    /\ last.after = default_status
    /\ last.before # default_status
    /\ channels # <<>>
    /\ channels[1].status = default_status
    /\ view[last.who].op_button = (IF default_status = "True" THEN "remove" ELSE "add")

(* C9: the write of a toggle stores the opposite of the status its own read  *)
(* returned, whatever the row holds by then: nothing compares the two.  So   *)
(* when two conversations have both read S for one entity, the first write   *)
(* stores not-S and the second, finding not-S, stores not-S again: the row   *)
(* ends at not-S, not at S, and one toggle is lost.                          *)
ToggleWritesWhatItRead ==
    [][/\ (/\ ToggleWritten("handle_toggle_channel_op_status")
           /\ toggling[Actor][1].channel_id \in ChannelKeys(channels)) =>
            LET t == toggling[Actor][1]
            IN  /\ t.current_status = "True" =>
                      get_channel(channels', t.channel_id)[1].status = "False"
                /\ t.current_status = "False" =>
                      get_channel(channels', t.channel_id)[1].status = "True"
                /\ last'.stale => channels' = channels
       /\ (/\ ToggleWritten("handle_toggle_bot_op_status")
           /\ toggling[Actor][1].bot_username \in BotKeys(bots)) =>
            LET t == toggling[Actor][1]
            IN  /\ t.current_status = "True" =>
                      get_bot(bots', t.bot_username)[1].status = "False"
                /\ t.current_status = "False" =>
                      get_bot(bots', t.bot_username)[1].status = "True"
                /\ last'.stale => bots' = bots]_vars

(* both admins read the status channel 555 was registered with; the second   *)
(* write found it already changed and stored the same value over it          *)
ToggleLost ==
    /\ last.handler = "handle_toggle_channel_op_status"
    /\ last.db = "ok"
    /\ last.stale
    /\ last.before = default_status
    /\ channels # <<>>
    /\ channels[1].status = last.after
    /\ channels[1].status # default_status

(* a key leaves a table only in a confirm step taken in the confirmation window *)
RemovedOnlyByConfirm ==
    /\ ChannelKeys(channels) \ ChannelKeys(channels') # {} =>
          /\ last'.handler = "handle_delete_channel"
          /\ Before.state = ChannelMenu_delete_channel
          /\ ChannelKeys(channels) \ ChannelKeys(channels') = {Before.dialog_data.channel_id[1]}
    /\ BotKeys(bots) \ BotKeys(bots') # {} =>
          /\ last'.handler = "handle_delete_bot"
          /\ Before.state = BotMenu_delete_bot
          /\ BotKeys(bots) \ BotKeys(bots') = {Before.dialog_data.bot_username[1]}

(* a context is in a confirmation window only if it was there already or the *)
(* delete button of the detail view of its entity put it there               *)
ConfirmationOnlyFromDetail ==
    \A a \in Admins : \A i \in DOMAIN stack'[a] :
        /\ stack'[a][i].state = ChannelMenu_delete_channel =>
              /\ i \in DOMAIN stack[a]
              /\ \/ stack[a][i].state = ChannelMenu_delete_channel
                 \/ /\ stack[a][i].state = ChannelMenu_menu
                    /\ i = Len(stack[a])
                    /\ a = Actor
                    /\ last'.handler = "delete_channel_btn"
                    /\ view[a].state = ChannelMenu_menu
                    /\ stack'[a][i].dialog_data.channel_id = stack[a][i].start_data.channel_id
                    /\ stack[a][i].start_data.channel_id # None
        /\ stack'[a][i].state = BotMenu_delete_bot =>
              /\ i \in DOMAIN stack[a]
              /\ \/ stack[a][i].state = BotMenu_delete_bot
                 \/ /\ stack[a][i].state = BotMenu_menu
                    /\ i = Len(stack[a])
                    /\ a = Actor
                    /\ last'.handler = "delete_bot_btn"
                    /\ view[a].state = BotMenu_menu
                    /\ stack'[a][i].dialog_data.bot_username = stack[a][i].start_data.bot_username
                    /\ stack[a][i].start_data.bot_username # None

(* the OP menu is open on top of the conversation of the actor and nothing escaped *)
OpMenuOpened ==
    /\ stack'[Actor] = start(stack[Actor], OPMenu_menu, NoStartData)
    /\ view'[Actor] = get_op_menu_data(channels', bots')
    /\ ~last'.escaped

(* a confirm ends with the key absent and the OP menu open; skip_failed leaves *)
(* out the confirms whose delete call raised a storage error                   *)
ConfirmRemoves(skip_failed) ==
    /\ (last'.handler = "handle_delete_channel" /\ ~(skip_failed /\ last'.db = "error")) =>
          /\ Before.state = ChannelMenu_delete_channel
          /\ Before.dialog_data.channel_id # None
          /\ Before.dialog_data.channel_id[1] \notin ChannelKeys(channels')
          /\ bots' = bots
          /\ OpMenuOpened
    /\ (last'.handler = "handle_delete_bot" /\ ~(skip_failed /\ last'.db = "error")) =>
          /\ Before.state = BotMenu_delete_bot
          /\ Before.dialog_data.bot_username # None
          /\ Before.dialog_data.bot_username[1] \notin BotKeys(bots')
          /\ channels' = channels
          /\ OpMenuOpened

(* a confirm whose delete call raised leaves both tables as they were and still *)
(* opens the OP menu                                                            *)
FailedConfirmKeeps ==
    (last'.handler \in {"handle_delete_channel", "handle_delete_bot"} /\ last'.db = "error") =>
        /\ channels' = channels
        /\ bots' = bots
        /\ OpMenuOpened

(* a confirm for a key that is no longer stored changes no table and raises nothing *)
AbsentConfirmIsNoOp ==
    (last'.handler \in {"handle_delete_channel", "handle_delete_bot"} /\ last'.before = "absent") =>
        /\ channels' = channels
        /\ bots' = bots
        /\ OpMenuOpened

(* C10 as stated: a record leaves the store only by the confirm action taken *)
(* in the delete-confirmation state, which is entered only from the detail   *)
(* view of that entity; after the confirm action the key is absent and the   *)
(* conversation is at the OP menu; a confirm for an absent key changes       *)
(* nothing and raises no error.                                              *)
ConfirmAlwaysRemoves ==
    [][EventStep =>
          /\ RemovedOnlyByConfirm
          /\ ConfirmationOnlyFromDetail
          /\ ConfirmRemoves(FALSE)
          /\ AbsentConfirmIsNoOp]_vars

(* C10: as stated, except that the key is absent after a confirm only when   *)
(* its delete call raised no storage error; a confirm whose delete call      *)
(* raised leaves the record stored and still opens the OP menu.              *)
TwoStepDelete ==
    [][EventStep =>
          /\ RemovedOnlyByConfirm
          /\ ConfirmationOnlyFromDetail
          /\ ConfirmRemoves(TRUE)
          /\ FailedConfirmKeeps
          /\ AbsentConfirmIsNoOp]_vars

(* channel 555 was deleted by a confirm, and the confirmation window, shown  *)
(* again, was confirmed once more with the key gone                          *)
ConfirmedTwice ==
    /\ last.handler = "handle_delete_channel"
    /\ last.before = "absent"
    /\ last.db = "ok"
    /\ ~last.escaped
    /\ channels = <<>>
    /\ Top(stack[last.who]).state = OPMenu_menu
    /\ \E i \in DOMAIN stack[last.who] :
          /\ stack[last.who][i].state = ChannelMenu_delete_channel
          /\ stack[last.who][i].dialog_data.channel_id = Some(555)

(* the event of this step is an input of the wrong shape for its window: a    *)
(* message that is not forwarded in await-forward, a message without text in *)
(* the four text windows                                                     *)
WrongShape ==
    \/ /\ last'.handler = "handle_channel_forward"
       /\ last'.message.forward_from_chat = None
    \/ /\ last'.handler \in {"handle_channel_url_input", "handle_bot_username_input",
                             "handle_bot_url_input", "handle_bot_name_input"}
       /\ last'.message.text = None

(* C11: an input of the wrong shape in a registration window leaves the      *)
(* conversation in the same state with the same stack, changes in the        *)
(* context nothing but the discriminator (not_forwarded, error_format),      *)
(* so every stashed field stays, leaves both tables unchanged and makes no   *)
(* get and no add call.                                                      *)
ValidationChangesOnlyPrompt ==
    [][(EventStep /\ WrongShape) =>
          LET msg_type == IF last'.handler = "handle_channel_forward"
                          THEN "not_forwarded" ELSE "error_format"
          IN  /\ stack'[Actor] =
                    [stack[Actor] EXCEPT ![Len(stack[Actor])].dialog_data.msg_type = msg_type]
              /\ Top(stack'[Actor]).state = Before.state
              /\ view'[Actor].state = Before.state
              /\ view'[Actor].msg_type = msg_type
              /\ channels' = channels
              /\ bots' = bots
              /\ last'.add = "none"
              /\ last'.db = "none"
              /\ ~last'.escaped]_vars

(* a message without text was sent in await-name: handle and URL are still stashed *)
NameRejectedStashKept ==
    /\ last.handler = "handle_bot_name_input"
    /\ last.message.text = None
    /\ Top(stack[last.who]).state = AddBotState_get_bot_name
    /\ Top(stack[last.who]).dialog_data.bot_username = Some(<<"a">>)
    /\ Top(stack[last.who]).dialog_data.bot_url = Some(<<"@", "a">>)
    /\ Top(stack[last.who]).dialog_data.msg_type = "error_format"
    /\ view[last.who].msg_type = "error_format"

(* C12 as stated: whatever datastore call fails in an event (the call of the *)
(* handler, its add call, or the call of the getter that renders the window  *)
(* afterwards), the failure is caught inside the handler and no exception    *)
(* leaves it.                                                                *)
NoFailureEscapes ==
    (last.db = "error" \/ last.add = "error" \/ last.render = "error") => ~last.escaped

(* C13: when the membership query fails for an active channel the failure    *)
(* leaves the gate handler: nothing is answered to the user, the channel of  *)
(* the failed query is not in the unsatisfied list, the queries issued are   *)
(* those of the active channels up to and including the failed one, and no   *)
(* active channel after it in iteration order is queried.                    *)
QueryFailureAbortsGate ==
    gate.handler # "" =>
        LET active == ActiveRows(gate.channel_data)
            n == Len(gate.queried)
        IN  /\ (\E i \in DOMAIN active : gate.member_status[active[i].id] = QueryFailed)
                  <=> gate.raised
            /\ gate.raised =>
                  /\ ~gate.answered
                  /\ n \in 1..Len(active)
                  /\ \A i \in 1..n : gate.queried[i] = active[i].id
                  /\ gate.member_status[gate.queried[n]] = QueryFailed
                  /\ \A i \in 1..(n - 1) : gate.member_status[gate.queried[i]] # QueryFailed
                  /\ \A i \in DOMAIN gate.not_sub_channels :
                        /\ gate.not_sub_channels[i].id # gate.queried[n]
                        /\ \E j \in 1..(n - 1) : gate.queried[j] = gate.not_sub_channels[i].id
                  /\ \A i \in (n + 1)..Len(active) :
                        \A j \in DOMAIN gate.queried : gate.queried[j] # active[i].id

(* the query failed for the second of three active channels: the first, not  *)
(* joined, had been noted, the third was never queried, nothing was answered *)
GateAborted ==
    /\ gate.raised
    /\ ~gate.answered
    /\ Len(ActiveRows(gate.channel_data)) = 3
    /\ Len(gate.queried) = 2
    /\ Len(gate.not_sub_channels) = 1

(* context i of admin a was the one the event of this step was delivered to *)
Delivered(a, i) == a = Actor /\ i = Len(stack[a])

(* a context is in bot await-url only if it was there already with the same  *)
(* handle, or this step stashed, in await-username, a handle that get_bot    *)
(* found no record for                                                       *)
AwaitUrlAfterUsername ==
    \A a \in Admins : \A i \in DOMAIN stack'[a] :
        stack'[a][i].state = AddBotState_get_bot_link =>
            /\ i \in DOMAIN stack[a]
            /\ stack'[a][i].dialog_data.bot_username # None
            /\ stack'[a][i].dialog_data.bot_url = None
            /\ \/ /\ stack[a][i].state = AddBotState_get_bot_link
                  /\ stack'[a][i].dialog_data.bot_username = stack[a][i].dialog_data.bot_username
               \/ /\ stack[a][i].state = AddBotState_get_bot_username
                  /\ Delivered(a, i)
                  /\ last'.handler = "handle_bot_username_input"
                  /\ last'.message.text # None
                  /\ last'.db = "ok"
                  /\ CleanUsername(last'.message.text[1]) \notin BotKeys(bots)
                  /\ stack[a][i].dialog_data.bot_username = None
                  /\ stack'[a][i].dialog_data.bot_username =
                        Some(CleanUsername(last'.message.text[1]))

(* a context is in await-name only if it was there already with the same     *)
(* handle and URL, or this step stashed, in await-url, the typed URL or the  *)
(* URL derived from the stashed handle                                       *)
AwaitNameAfterUrl ==
    \A a \in Admins : \A i \in DOMAIN stack'[a] :
        stack'[a][i].state = AddBotState_get_bot_name =>
            /\ i \in DOMAIN stack[a]
            /\ stack'[a][i].dialog_data.bot_username # None
            /\ stack'[a][i].dialog_data.bot_url # None
            /\ stack'[a][i].dialog_data.bot_username = stack[a][i].dialog_data.bot_username
            /\ \/ /\ stack[a][i].state = AddBotState_get_bot_name
                  /\ stack'[a][i].dialog_data.bot_url = stack[a][i].dialog_data.bot_url
               \/ /\ stack[a][i].state = AddBotState_get_bot_link
                  /\ Delivered(a, i)
                  /\ \/ /\ last'.handler = "handle_bot_url_input"
                        /\ last'.message.text # None
                        /\ stack'[a][i].dialog_data.bot_url = Some(Strip(last'.message.text[1]))
                     \/ /\ last'.handler = "handle_default_bot_url"
                        /\ stack'[a][i].dialog_data.bot_url =
                              Some(DefaultBotUrl(stack[a][i].dialog_data.bot_username[1]))

(* a bot row appears only by the add call of await-name, made with the       *)
(* stashed handle, the stashed URL and the name of the message               *)
BotAddedFromStash ==
    /\ (last'.handler = "handle_bot_name_input" /\ last'.add # "none") =>
          /\ Before.state = AddBotState_get_bot_name
          /\ last'.message.text # None
          /\ Before.dialog_data.bot_username # None
          /\ Before.dialog_data.bot_url # None
          /\ last'.add = "ok" =>
                bots' = Append(bots, [name |-> Strip(last'.message.text[1]),
                                      username |-> Before.dialog_data.bot_username[1],
                                      status |-> default_status,
                                      url |-> Before.dialog_data.bot_url[1]])
    /\ BotKeys(bots') \ BotKeys(bots) # {} =>
          last'.handler = "handle_bot_name_input" /\ last'.add = "ok"

(* C14: add for a bot is called only in await-name, in a context that        *)
(* reached await-url by stashing in await-username a handle whose existence  *)
(* check found no record, and then reached await-name by stashing a URL,     *)
(* typed or derived by the shortcut; the row stored carries the stashed      *)
(* handle, the stashed URL and the name given in await-name.                 *)
BotCreationOrdered ==
    [][EventStep => (AwaitUrlAfterUsername /\ AwaitNameAfterUrl /\ BotAddedFromStash)]_vars

(* the bot "a" was registered with the name "@a" and the derived URL *)
BotRegisteredFromStash ==
    /\ last.handler = "handle_bot_name_input"
    /\ last.add = "ok"
    /\ bots = <<BotRow(<<"@", "a">>, <<"a">>, default_status, DefaultBotUrl(<<"a">>))>>
    /\ view[last.who].bot_items = {<<"a">>}

RegistrationStates ==
    { AddChannelState_get_channel_data, AddChannelState_get_channel_link,
      AddBotState_get_bot_username, AddBotState_get_bot_link, AddBotState_get_bot_name }

(* the event of this step ends a registration flow (its add call was made, or *)
(* the missing-data branch fired) or abandons it with the Back button         *)
FlowEndsOrIsAbandoned ==
    /\ stack[Actor] # <<>>
    /\ Before.state \in RegistrationStates
    /\ \/ last'.handler = "back_to_op_menu"
       \/ /\ last'.handler \in {"handle_channel_url_input", "handle_bot_name_input"}
          /\ last'.message.text # None

(* C15 as stated: after a registration flow ends or is abandoned with Back,  *)
(* no context of that flow, with its scratch data, is left anywhere in the   *)
(* dialog stack of the conversation; a registration flow started afterwards  *)
(* begins with empty scratch data.                                           *)
ScratchDiscarded ==
    [][EventStep =>
          /\ FlowEndsOrIsAbandoned =>
                \A i \in DOMAIN stack'[Actor] :
                    stack'[Actor][i].state \in RegistrationStates =>
                        stack'[Actor][i].dialog_data = EmptyData
          /\ last'.handler \in {"add_channel_btn", "add_bot_btn"} =>
                Top(stack'[Actor]).dialog_data = EmptyData]_vars

(* the detail view rendered in this step for a key that has no row shows the placeholder *)
VanishedShowsPlaceholder ==
    (stack'[Actor] # <<>> /\ ~last'.escaped) =>
        LET ctx == Top(stack'[Actor])
        IN  /\ (/\ ctx.state = ChannelMenu_menu
                /\ ctx.start_data.channel_id[1] \notin ChannelKeys(channels')) =>
                    /\ view'[Actor].state = ChannelMenu_menu
                    /\ view'[Actor].info = "not_found"
                    /\ view'[Actor].op_button = "dash"
            /\ (/\ ctx.state = BotMenu_menu
                /\ ctx.start_data.bot_username[1] \notin BotKeys(bots')) =>
                    /\ view'[Actor].state = BotMenu_menu
                    /\ view'[Actor].info = "not_found"
                    /\ view'[Actor].op_button = "dash"

(* the event of this step was delivered to the detail view, or to the        *)
(* confirmation window behind its delete button, of a key that has no row    *)
OnVanished ==
    /\ stack[Actor] # <<>>
    /\ \/ /\ Before.state \in {ChannelMenu_menu, ChannelMenu_delete_channel}
          /\ Before.dialog_data.channel_id # None
          /\ Before.dialog_data.channel_id[1] \notin ChannelKeys(channels)
       \/ /\ Before.state \in {BotMenu_menu, BotMenu_delete_bot}
          /\ Before.dialog_data.bot_username # None
          /\ Before.dialog_data.bot_username[1] \notin BotKeys(bots)

TakenHandleStays ==
    [][(/\ EventStep
        /\ last'.handler = "handle_bot_username_input"
        /\ last'.message.text # None
        /\ last'.db = "ok") =>
          LET bot_username == CleanUsername(last'.message.text[1])
              top == Len(stack[Actor])
          IN  /\ Before.state = AddBotState_get_bot_username
              /\ Before.dialog_data.bot_username = None
              /\ last'.add = "none"
              /\ channels' = channels /\ bots' = bots
              /\ bot_username \in BotKeys(bots) =>
                    /\ stack'[Actor] =
                          [stack[Actor] EXCEPT ![top].dialog_data.msg_type = "already_exists"]
                    /\ view'[Actor].state = AddBotState_get_bot_username
                    /\ view'[Actor].msg_type = "already_exists"
              /\ bot_username \notin BotKeys(bots) =>
                    /\ stack'[Actor] =
                          [stack[Actor] EXCEPT
                              ![top].dialog_data.bot_username = Some(bot_username),
                              ![top].state = AddBotState_get_bot_link]
                    /\ view'[Actor].state = AddBotState_get_bot_link]_vars

(* " @a" was sent in await-username while the bot "a" is registered *)
TakenHandleRejected ==
    /\ last.handler = "handle_bot_username_input"
    /\ last.db = "ok"
    /\ last.message.text = Some(<<" ", "@", "a">>)
    /\ <<"a">> \in BotKeys(bots)
    /\ Top(stack[last.who]).state = AddBotState_get_bot_username
    /\ Top(stack[last.who]).dialog_data.bot_username = None
    /\ Top(stack[last.who]).dialog_data.msg_type = "already_exists"
    /\ view[last.who].msg_type = "already_exists"

(* the event of this step is a toggle that found no row for its key, or whose *)
(* read (get) or write (update_status) raised a storage error                 *)
ToggleFails ==
    \/ /\ last'.handler = "handle_toggle_channel_op_status"
       /\ \/ last'.db \in {"error", "not_found"}
          \/ /\ Before.dialog_data.channel_id # None
             /\ Before.dialog_data.channel_id[1] \notin ChannelKeys(channels)
    \/ /\ last'.handler = "handle_toggle_bot_op_status"
       /\ \/ last'.db \in {"error", "not_found"}
          \/ /\ Before.dialog_data.bot_username # None
             /\ Before.dialog_data.bot_username[1] \notin BotKeys(bots)

(* C18: a toggle whose entity has no row, or whose read or write of the      *)
(* status raises a storage error, leaves every row of both tables as it was  *)
(* and the conversation in the detail view of the entity (ChannelMenu.menu,  *)
(* BotMenu.menu), rendered again.                                            *)
FailedToggleKeepsStore ==
    [][(EventStep /\ ToggleFails) =>
          LET menu == IF last'.handler = "handle_toggle_channel_op_status"
                      THEN ChannelMenu_menu ELSE BotMenu_menu
          IN  /\ channels' = channels
              /\ bots' = bots
              /\ Before.state = menu
              /\ stack'[Actor] = stack[Actor]
              /\ view'[Actor].state = menu
              /\ ~last'.escaped]_vars

(* the write of a toggle of channel 555 raised: the row keeps the status read *)
ToggleWriteFailed ==
    /\ last.handler = "handle_toggle_channel_op_status"
    /\ last.db = "error"
    /\ last.after # ""
    /\ ~last.stale
    /\ Len(channels) = 1
    /\ channels[1].status = last.before
    /\ view[last.who].state = ChannelMenu_menu
    /\ view[last.who].info = "found"

(* C19: in bot await-url the shortcut, pressed with a handle h stashed,      *)
(* stashes the URL "https://t.me/" followed by h and moves the flow to       *)
(* await-name with no text sent; pressed with no handle stashed (none, or an *)
(* empty one) it leaves the state and the scratch data of the conversation   *)
(* as they were.  Neither table changes.                                     *)
ShortcutDerivesUrl ==
    [][(EventStep /\ last'.handler = "handle_default_bot_url") =>
          LET bot_username == Before.dialog_data.bot_username
              top == Len(stack[Actor])
          IN  /\ Before.state = AddBotState_get_bot_link
              /\ last'.message = NoMessage
              /\ last'.add = "none"
              /\ channels' = channels /\ bots' = bots
              /\ (bot_username # None /\ bot_username[1] # <<>>) =>
                    /\ stack'[Actor] =
                          [stack[Actor] EXCEPT
                              ![top].dialog_data.bot_url =
                                  Some(<<"https://t.me/">> \o bot_username[1]),
                              ![top].state = AddBotState_get_bot_name]
                    /\ view'[Actor].state = AddBotState_get_bot_name
              /\ (bot_username = None \/ bot_username[1] = <<>>) =>
                    /\ stack'[Actor] = stack[Actor]
                    /\ view'[Actor] = view[Actor]]_vars

(* the shortcut was pressed with the handle "a" stashed *)
ShortcutTaken ==
    /\ last.handler = "handle_default_bot_url"
    /\ Top(stack[last.who]).state = AddBotState_get_bot_name
    /\ Top(stack[last.who]).dialog_data.bot_username = Some(<<"a">>)
    /\ Top(stack[last.who]).dialog_data.bot_url = Some(<<"https://t.me/", "a">>)
    /\ view[last.who].state = AddBotState_get_bot_name

(* C20 as stated: the channel await-url step calls add only for an input     *)
(* that is non-empty text, so every row of the channels table has a          *)
(* non-empty URL; an input of whitespace only creates no row.                *)
ChannelUrlNonEmpty ==
    /\ \A i \in DOMAIN channels : channels[i].url # <<>>
    /\ (last.handler = "handle_channel_url_input" /\ last.add # "none") =>
          (last.message.text # None /\ Strip(last.message.text[1]) # <<>>)

(* C21 as stated: whenever a window of a registration flow is rendered, the  *)
(* discriminator its getter returns is one of the keys of the Case of that   *)
(* window.                                                                   *)
RenderableDiscriminator ==
    \A a \in Admins :
        view[a].state \in RegistrationStates =>
            view[a].msg_type \in CaseVariants(view[a].state)

(* the event of this step is a valid input that moves a registration flow to *)
(* its next window: a forward of a chat without a record, a handle without a *)
(* record, a URL typed or derived                                            *)
AdvancesFlow ==
    /\ stack[Actor] # <<>>
    /\ Len(stack'[Actor]) = Len(stack[Actor])
    /\ \/ /\ last'.handler = "handle_channel_forward"
          /\ Before.state = AddChannelState_get_channel_data
          /\ Top(stack'[Actor]).state = AddChannelState_get_channel_link
          /\ Top(stack'[Actor]).dialog_data.channel_data # None
       \/ /\ last'.handler = "handle_bot_username_input"
          /\ Before.state = AddBotState_get_bot_username
          /\ Top(stack'[Actor]).state = AddBotState_get_bot_link
       \/ /\ last'.handler \in {"handle_bot_url_input", "handle_default_bot_url"}
          /\ Before.state = AddBotState_get_bot_link
          /\ Top(stack'[Actor]).state = AddBotState_get_bot_name

(* C22 as stated: when a valid input moves a registration flow to its next   *)
(* state, the first rendering of the new window uses the discriminator       *)
(* start_msg, whatever discriminator rejected inputs had set before.         *)
NoStalePrompt ==
    [][(EventStep /\ AdvancesFlow) =>
          /\ view'[Actor].state = Top(stack'[Actor]).state
          /\ view'[Actor].msg_type = "start_msg"]_vars

(* C23 as stated: No in a delete-confirmation window leaves both tables as   *)
(* they were and shows the detail view again, of the same entity: the key    *)
(* the confirmation window held is the one the detail view reads from its    *)
(* start data and keeps in its scratch data for a later toggle or delete.    *)
CancelKeepsEntity ==
    [][(EventStep /\ last'.handler \in {"cancel_delete_channel", "cancel_delete_bot"}) =>
          LET ctx == Top(stack'[Actor])
          IN  /\ channels' = channels
              /\ bots' = bots
              /\ ~last'.escaped
              /\ last'.handler = "cancel_delete_channel" =>
                    /\ Before.state = ChannelMenu_delete_channel
                    /\ ctx.state = ChannelMenu_menu
                    /\ view'[Actor].state = ChannelMenu_menu
                    /\ ctx.start_data.channel_id = Before.dialog_data.channel_id
                    /\ ctx.dialog_data.channel_id = Before.dialog_data.channel_id
              /\ last'.handler = "cancel_delete_bot" =>
                    /\ Before.state = BotMenu_delete_bot
                    /\ ctx.state = BotMenu_menu
                    /\ view'[Actor].state = BotMenu_menu
                    /\ ctx.start_data.bot_username = Before.dialog_data.bot_username
                    /\ ctx.dialog_data.bot_username = Before.dialog_data.bot_username]_vars

(* C24 as stated: a context in bot await-name holds a non-empty handle and a *)
(* non-empty URL, and the await-name handler never takes its missing-data    *)
(* branch: a text it is given always leads to the add call.                  *)
BotScratchComplete ==
    /\ \A a \in Admins : \A i \in DOMAIN stack[a] :
          stack[a][i].state = AddBotState_get_bot_name =>
              /\ TruthyText(stack[a][i].dialog_data.bot_username)
              /\ TruthyText(stack[a][i].dialog_data.bot_url)
    /\ (/\ last.handler = "handle_bot_name_input"
        /\ last.message.text # None
        /\ last.message.text # Some(<<>>)) => last.add # "none"

(* C25 as stated: every state a button or a handler starts or switches to    *)
(* belongs to a dialog that dialog_register includes, so every context of a  *)
(* conversation is in a state with a registered window.                      *)
EveryTargetServed ==
    \A a \in Admins : \A i \in DOMAIN stack[a] :
        DialogOf(stack[a][i].state) \in dialog_register

(* C26 as stated: whenever a conversation is back at the OP main menu, after *)
(* a registration, a delete or a Back button, its dialog stack is as deep as *)
(* at the first visit of the OP main menu: the menu's context and no other.  *)
StackDepthAtOpMenu ==
    \A a \in Admins :
        (toggling[a] = None /\ stack[a] # <<>> /\ Top(stack[a]).state = OPMenu_menu) =>
            Len(stack[a]) = 1

====
